---------------------------- MODULE Spec2Model ----------------------------
(* Model of firmware/lib/layout/eeprom-macro/atmega32u4.c: the EEMEM       *)
(* layout, the key-action codec, the macro navigators and compress().      *)
EXTENDS Integers, Sequences, FiniteSets, TLC

VARIABLES mem,            \* the EEPROM cells that are not erased, address -> 0..255
          queue,          \* writes and copies scheduled but not yet applied
          end_macro,      \* address of the macro with type == TYPE_END
          new_end_macro,  \* address of the next byte of a new macro
          arg,            \* arguments of the last call
          ret,            \* what the last call returned
          hist            \* history: what the store held before the call

vars == <<mem, queue, end_macro, new_end_macro, arg, ret, hist>>

-----------------------------------------------------------------------------
(* macros *)

VERSION == 1
TYPE_DELETED == 0
TYPE_VALID_MACRO == 1
TYPE_CONTINUED == 2
TYPE_END == 255
UINT8_MAX == 255

\* OPT__EEPROM__EEPROM_MACRO__START and ..__END are build options; these are
\* the whole EEPROM of the ATMega32U4 (1024 bytes, beginning with byte 0)
EEMEM_START == 0
EEMEM_END == 1023
EEMEM_START_ADDRESS_START == EEMEM_START + 0
EEMEM_START_ADDRESS_END == EEMEM_START_ADDRESS_START + 1
EEMEM_END_ADDRESS_START == EEMEM_START_ADDRESS_END + 1
EEMEM_END_ADDRESS_END == EEMEM_END_ADDRESS_START + 1
EEMEM_VERSION_START == EEMEM_END_ADDRESS_END + 1
EEMEM_VERSION_END == EEMEM_VERSION_START + 0
EEMEM_MACROS_START == EEMEM_VERSION_END + 1
EEMEM_MACROS_END == EEMEM_END - 0

\* width of a data pointer (void *) and of uint16_t on the ATMega32U4
PtrSpace == 65536

-----------------------------------------------------------------------------
(* uint8_t arithmetic used by the codec *)

\* x <<= 2 on a uint8_t
Shl2(x) == (x * 4) % 256

\* (x & 0xC0) >> 6 : the most significant pair of bits of a uint8_t
TopPair(x) == x \div 64

\* (k.layer | k.row | k.column) & 0xC0
TopPairsSet(k) == TopPair(k.layer) # 0 \/ TopPair(k.row) # 0 \/ TopPair(k.column) # 0

ShiftKey(k) == [k EXCEPT !.layer = Shl2(k.layer), !.row = Shl2(k.row),
                         !.column = Shl2(k.column)]

-----------------------------------------------------------------------------
(* the EEPROM wrapper: eeprom__read() reads the cell as it is now,         *)
(* eeprom__write() and eeprom__copy() are scheduled and applied in order   *)

WriteOp(to, val) == [op |-> "write", to |-> to, val |-> val, from |-> 0, len |-> 1]
CopyOp(to, from, len) == [op |-> "copy", to |-> to, val |-> 0, from |-> from, len |-> len]

\* the erased state of this EEPROM is all 1s; mem holds the other cells
ERASED == 255
Cell(m, a) == IF a \in DOMAIN m THEN m[a] ELSE ERASED
Store(m, a, v) == [x \in DOMAIN m \cup {a} |-> IF x = a THEN v ELSE m[x]]

eeprom__read(m, a) == Cell(m, a)

\* one scheduled write or copy takes effect; a copy moves its bytes one at a
\* time from the lowest address up, so byte i comes from from + i unless the
\* copy has already overwritten that cell
CopiedByte(m, to, from, i) ==
    IF to <= from \/ from + i < to
    THEN Cell(m, from + i)
    ELSE Cell(m, from + (i % (to - from)))

CopyBytes(m, to, from, len) ==
    [x \in DOMAIN m \cup (to..(to + len - 1)) |->
        IF x \in to..(to + len - 1) THEN CopiedByte(m, to, from, x - to) ELSE m[x]]

Apply(m, o) ==
    IF o.op = "write"
    THEN Store(m, o.to, o.val)
    ELSE CopyBytes(m, o.to, o.from, o.len)

RECURSIVE ApplyAll(_, _)
ApplyAll(m, ops) == IF ops = <<>> THEN m ELSE ApplyAll(Apply(m, Head(ops)), Tail(ops))

\* the sequence q without its element i
Without(q, i) == [j \in 1..(Len(q) - 1) |-> IF j < i THEN q[j] ELSE q[j + 1]]

\* the addresses a scheduled write or copy writes to
Targets(o) == o.to..(o.to + o.len - 1)

\* the calling function's view: c.m is what eeprom__read() sees, c.ops is what
\* it has scheduled.  imm = TRUE models writes that are not delayed.
Issue(c, o, imm) ==
    [c EXCEPT !.m = IF imm THEN Apply(c.m, o) ELSE c.m, !.ops = Append(c.ops, o)]

\* the view a function starts with: nothing scheduled, no loop entered, no
\* address read that the function had written to before (clean)
View(m) ==
    [m |-> m, ops |-> <<>>, iters |-> 0, chunks |-> 0, done |-> TRUE, clean |-> TRUE,
     nowrap |-> TRUE]

\* the function reads the addresses of the set reads
Reading(c, reads) ==
    [c EXCEPT !.clean = @ /\ \A j \in 1..Len(c.ops) : \A a \in reads : a \notin Targets(c.ops[j])]

-----------------------------------------------------------------------------
(* read_key_action *)

\* byte >> n & 0b11
PairAt(byte, n) == (byte \div (2 ^ n)) % 4

FirstByteKey(byte) ==
    [pressed |-> ((byte \div 64) % 2 = 1),
     layer   |-> PairAt(byte, 4),
     row     |-> PairAt(byte, 2),
     column  |-> PairAt(byte, 0)]

\* (a slip: the row pair is taken from the layer's bits)
OrPairs_RowFromLayer(k, byte) ==
    [k EXCEPT !.layer  = Shl2(k.layer)  + PairAt(byte, 4),
              !.row    = Shl2(k.row)    + PairAt(byte, 4),
              !.column = Shl2(k.column) + PairAt(byte, 0)]

\* k.x <<= 2 ; k.x |= byte >> n & 0b11
OrPairs(k, byte) ==
    [k EXCEPT !.layer  = Shl2(k.layer)  + PairAt(byte, 4),
              !.row    = Shl2(k.row)    + PairAt(byte, 2),
              !.column = Shl2(k.column) + PairAt(byte, 0)]

RECURSIVE read_loop(_, _, _, _)
read_loop(m, from, byte, k) ==
    IF byte \div 128 = 1
    THEN LET b == eeprom__read(m, from) IN read_loop(m, from + 1, b, OrPairs(k, b))
    ELSE [k |-> k, from |-> from]

\* returns the key-action and the value `from` has when the function returns
read_key_action(m, from) ==
    LET byte == eeprom__read(m, from)
    IN  read_loop(m, from + 1, byte, FirstByteKey(byte))

-----------------------------------------------------------------------------
(* write_key_action *)

\* a bool used as an integer
BoolBit(b) == IF b THEN 1 ELSE 0

\* (a slip: at most 2 pairs of bits are ignored)
RECURSIVE skip_loop_AtMostTwo(_, _)
skip_loop_AtMostTwo(i, k) ==
    IF i < 2 /\ ~TopPairsSet(k)
    THEN skip_loop_AtMostTwo(i + 1, ShiftKey(k))
    ELSE [i |-> i, k |-> k]

RECURSIVE skip_loop(_, _)
skip_loop(i, k) ==
    IF i < 3 /\ ~TopPairsSet(k) THEN skip_loop(i + 1, ShiftKey(k)) ELSE [i |-> i, k |-> k]

\* (a slip: the continued bit is never set)
KeyByte_NoContinued(i, byte, k) ==
    byte + (TopPair(k.layer) * 16) + (TopPair(k.row) * 4) + TopPair(k.column)

KeyByte(i, byte, k) ==
    byte + (IF i < 3 THEN 128 ELSE 0)
         + (TopPair(k.layer) * 16) + (TopPair(k.row) * 4) + TopPair(k.column)

\* (a slip: `to` is not advanced)
RECURSIVE write_loop_SameAddress(_, _, _, _, _)
write_loop_SameAddress(i, to, k, byte, ops) ==
    IF i < 4
    THEN write_loop_SameAddress(i + 1, to, ShiftKey(k), 64,
                                Append(ops, WriteOp(to, KeyByte(i, byte, k))))
    ELSE ops

RECURSIVE write_loop(_, _, _, _, _)
write_loop(i, to, k, byte, ops) ==
    IF i < 4
    THEN write_loop(i + 1, to + 1, ShiftKey(k), 64,
                    Append(ops, WriteOp(to, KeyByte(i, byte, k))))
    ELSE ops

\* (a slip: room for 3 bytes is taken to be enough)
NoHeadroom_Three(to) == to > EEMEM_END - 3

NoHeadroom(to) == to > EEMEM_END - 4

write_key_action(to, k) ==
    IF NoHeadroom(to)
    THEN [ret |-> 0, ops |-> <<>>]
    ELSE LET s == skip_loop(0, k)
         IN  [ret |-> 4 - s.i, ops |-> write_loop(s.i, to, s.k, BoolBit(k.pressed) * 64, <<>>)]

-----------------------------------------------------------------------------
(* find_key_action, find_next_deleted, find_next_nondeleted *)

\* (a slip: the type is added, not the length)
NextMacro_AddsType(m, current) == (current + eeprom__read(m, current)) % PtrSpace

\* current += eeprom__read(current+1), on a 16 bit pointer
NextMacro(m, current) == (current + eeprom__read(m, current + 1)) % PtrSpace

\* (a slip: pressed is not compared)
SameKey_AnyPressed(k, k_current) ==
    /\ k.layer   = k_current.layer
    /\ k.row     = k_current.row
    /\ k.column  = k_current.column

SameKey(k, k_current) ==
    /\ k.pressed = k_current.pressed
    /\ k.layer   = k_current.layer
    /\ k.row     = k_current.row
    /\ k.column  = k_current.column

\* (a slip: the address of the macro's data is returned)
RECURSIVE find_key_loop_ReturnsData(_, _, _)
find_key_loop_ReturnsData(m, k, current) ==
    LET type == eeprom__read(m, current) IN
    IF type = TYPE_END THEN 0
    ELSE IF type = TYPE_VALID_MACRO /\ SameKey(k, read_key_action(m, current + 2).k)
         THEN current + 2
         ELSE find_key_loop_ReturnsData(m, k, NextMacro(m, current))

RECURSIVE find_key_loop(_, _, _)
find_key_loop(m, k, current) ==
    LET type == eeprom__read(m, current) IN
    IF type = TYPE_END THEN 0
    ELSE IF type = TYPE_VALID_MACRO /\ SameKey(k, read_key_action(m, current + 2).k)
         THEN current
         ELSE find_key_loop(m, k, NextMacro(m, current))

find_key_action(m, k) == find_key_loop(m, k, EEMEM_MACROS_START)

\* (a slip: the address of the TYPE_END macro is returned when no deleted
\* macro is found)
RECURSIVE find_next_deleted_ReturnsEnd(_, _)
find_next_deleted_ReturnsEnd(m, start) ==
    LET type == eeprom__read(m, start) IN
    IF type = TYPE_END THEN start
    ELSE IF type = TYPE_DELETED THEN start
         ELSE find_next_deleted_ReturnsEnd(m, NextMacro(m, start))

RECURSIVE find_next_deleted(_, _)
find_next_deleted(m, start) ==
    LET type == eeprom__read(m, start) IN
    IF type = TYPE_END THEN 0
    ELSE IF type = TYPE_DELETED THEN start
         ELSE find_next_deleted(m, NextMacro(m, start))

\* (a slip: continued macros are not skipped)
Skipped_OnlyDeleted(type) == type = TYPE_DELETED

Skipped(type) == type = TYPE_DELETED \/ type = TYPE_CONTINUED

\* (a slip: the scan stops at a continued macro)
RECURSIVE find_next_nondeleted_StopsAtContinued(_, _)
find_next_nondeleted_StopsAtContinued(m, start) ==
    IF eeprom__read(m, start) = TYPE_DELETED
    THEN find_next_nondeleted_StopsAtContinued(m, NextMacro(m, start))
    ELSE start

RECURSIVE find_next_nondeleted(_, _)
find_next_nondeleted(m, start) ==
    IF Skipped(eeprom__read(m, start))
    THEN find_next_nondeleted(m, NextMacro(m, start))
    ELSE start

\* the navigators once more, with the addresses at which a type is read kept
\* in the order of the reads; a scan is cut off after MaxSteps reads (done is
\* FALSE then: the loop was still running)
MaxSteps == 8

\* (a slip: the macro at `start` is passed over without a look at its type)
RECURSIVE find_next_deleted_scan_AfterStart(_, _, _)
find_next_deleted_scan_AfterStart(m, start, reads) ==
    LET type == eeprom__read(m, start)
        r    == Append(reads, start)
    IN  IF type = TYPE_END THEN [ret |-> 0, reads |-> r, done |-> TRUE]
        ELSE IF type = TYPE_DELETED /\ reads # <<>>
             THEN [ret |-> start, reads |-> r, done |-> TRUE]
        ELSE IF Len(r) >= MaxSteps THEN [ret |-> 0, reads |-> r, done |-> FALSE]
        ELSE find_next_deleted_scan_AfterStart(m, NextMacro(m, start), r)

RECURSIVE find_next_deleted_scan(_, _, _)
find_next_deleted_scan(m, start, reads) ==
    LET type == eeprom__read(m, start)
        r    == Append(reads, start)
    IN  IF type = TYPE_END THEN [ret |-> 0, reads |-> r, done |-> TRUE]
        ELSE IF type = TYPE_DELETED THEN [ret |-> start, reads |-> r, done |-> TRUE]
        ELSE IF Len(r) >= MaxSteps THEN [ret |-> 0, reads |-> r, done |-> FALSE]
        ELSE find_next_deleted_scan(m, NextMacro(m, start), r)

\* (a slip: the loop goes on while the type is not TYPE_VALID_MACRO)
RECURSIVE find_next_nondeleted_scan_UntilValid(_, _, _)
find_next_nondeleted_scan_UntilValid(m, start, reads) ==
    LET r == Append(reads, start)
    IN  IF eeprom__read(m, start) = TYPE_VALID_MACRO
        THEN [ret |-> start, reads |-> r, done |-> TRUE]
        ELSE IF Len(r) >= MaxSteps THEN [ret |-> start, reads |-> r, done |-> FALSE]
        ELSE find_next_nondeleted_scan_UntilValid(m, NextMacro(m, start), r)

RECURSIVE find_next_nondeleted_scan(_, _, _)
find_next_nondeleted_scan(m, start, reads) ==
    LET r == Append(reads, start)
    IN  IF ~Skipped(eeprom__read(m, start)) THEN [ret |-> start, reads |-> r, done |-> TRUE]
        ELSE IF Len(r) >= MaxSteps THEN [ret |-> start, reads |-> r, done |-> FALSE]
        ELSE find_next_nondeleted_scan(m, NextMacro(m, start), r)

\* the addresses a scan reads: a type at each address of reads, and a length
\* after each type but the last
ScanReads(r) == { r.reads[j] : j \in 1..Len(r.reads) }
                   \cup { r.reads[j] + 1 : j \in 1..(Len(r.reads) - 1) }

-----------------------------------------------------------------------------
(* compress *)

\* the loops are followed for at most MaxIters rounds of the while loop and
\* MaxChunks rounds of the for loops (done is FALSE when a loop was cut off)
MaxIters == 4
MaxChunks == 4

\* (a slip: the length is not limited)
ChunkLength_NoLimit(length) == length

\* (a slip: the length is kept in a uint8_t)
ChunkLength_Truncated(length) == length % (UINT8_MAX + 1)

\* if (length > UINT8_MAX) length = UINT8_MAX;
ChunkLength(length) == IF length > UINT8_MAX THEN UINT8_MAX ELSE length

\* the inner for loop: uint16_t length = next - to_compress
RECURSIVE copy_loop(_, _, _, _, _)
copy_loop(c, to_overwrite, to_compress, next, imm) ==
    LET length == (next - to_compress) % PtrSpace IN
    IF length = 0
    THEN [c |-> c, to_overwrite |-> to_overwrite, to_compress |-> to_compress]
    ELSE IF c.chunks >= MaxChunks
    THEN [c |-> [c EXCEPT !.done = FALSE],
          to_overwrite |-> to_overwrite, to_compress |-> to_compress]
    ELSE LET len == ChunkLength(length)
             c1  == Reading([c EXCEPT !.chunks = @ + 1, !.nowrap = @ /\ to_compress <= next],
                            to_compress..(to_compress + len - 1))
         IN  copy_loop(Issue(c1, CopyOp(to_overwrite, to_compress, len), imm),
                       (to_overwrite + len) % PtrSpace,
                       (to_compress + len) % PtrSpace, next, imm)

\* (a slip: the data to copy always runs to new_end_macro)
SpanEnd_ToFrontier(m, to_compress, nem) == nem

\* next = find_next_deleted(to_compress); if (! next) next = new_end_macro;
SpanEnd(m, to_compress, nem) ==
    LET next == find_next_deleted(m, to_compress)
    IN  IF next = 0 THEN nem ELSE next

\* (a slip: the type is written before the TYPE_END that follows the data)
CloseSpan_TypeFirst(c, to_overwrite, type_location, type, next, nem, imm) ==
    LET c1 == Issue(c, WriteOp(type_location, type), imm)
    IN  IF next # nem THEN Issue(c1, WriteOp(to_overwrite, TYPE_END), imm) ELSE c1

\* (a slip: no TYPE_END is written after the data that was copied)
CloseSpan_NoEnd(c, to_overwrite, type_location, type, next, nem, imm) ==
    Issue(c, WriteOp(type_location, type), imm)

\* the two writes that close an iteration of the while loop
CloseSpan(c, to_overwrite, type_location, type, next, nem, imm) ==
    LET c1 == IF next # nem THEN Issue(c, WriteOp(to_overwrite, TYPE_END), imm) ELSE c
    IN  Issue(c1, WriteOp(type_location, type), imm)

\* (a slip: to_compress is left at the type of the data to copy)
PastType_Stays(to_compress) == to_compress

\* to_compress++ : the data is copied from the byte after its type on
PastType(to_compress) == to_compress + 1

\* the addresses an iteration of the while loop reads before it copies
LoopReads(m, next, to_compress) ==
    ScanReads(find_next_nondeleted_scan(m, next, <<>>))
        \cup ScanReads(find_next_deleted_scan(m, to_compress, <<>>))
        \cup {to_compress}

RECURSIVE compress_loop(_, _, _, _, _)
compress_loop(c, to_overwrite, next, nem, imm) ==
    IF next = nem \/ ~c.done THEN c
    ELSE IF c.iters >= MaxIters THEN [c EXCEPT !.done = FALSE]
    ELSE LET to_compress   == find_next_nondeleted(c.m, next)
             next2         == SpanEnd(c.m, to_compress, nem)
             type          == eeprom__read(c.m, to_compress)
             type_location == to_overwrite
             c1 == Reading([c EXCEPT !.iters = @ + 1], LoopReads(c.m, next, to_compress))
             r  == copy_loop(c1, to_overwrite + 1, PastType(to_compress), next2, imm)
         IN  compress_loop(CloseSpan(r.c, r.to_overwrite, type_location, type, next2, nem, imm),
                           r.to_overwrite, next2, nem, imm)

\* (a slip: TYPE_END is written before `next` is set)
EnterLoop_WritesFirst(c, to_overwrite, imm) ==
    LET c1 == Issue(c, WriteOp(to_overwrite, TYPE_END), imm)
    IN  [c    |-> Reading(c1, ScanReads(find_next_nondeleted_scan(c1.m, to_overwrite, <<>>))),
         next |-> find_next_nondeleted(c1.m, to_overwrite)]

\* next = find_next_nondeleted(to_overwrite); eeprom__write(to_overwrite, TYPE_END);
EnterLoop(c, to_overwrite, imm) ==
    LET c1 == Reading(c, ScanReads(find_next_nondeleted_scan(c.m, to_overwrite, <<>>)))
    IN  [c    |-> Issue(c1, WriteOp(to_overwrite, TYPE_END), imm),
         next |-> find_next_nondeleted(c.m, to_overwrite)]

\* returns the calling function's view when compress() returns
compress(m, nem, imm) ==
    LET to_overwrite == find_next_deleted(m, EEMEM_MACROS_START)
        c0 == View(m)
    IN  IF to_overwrite = 0 THEN c0
        ELSE LET e == EnterLoop(c0, to_overwrite, imm)
             IN  compress_loop(e.c, to_overwrite, e.next, nem, imm)

-----------------------------------------------------------------------------
(* the macro areas the model starts from *)

MaxRecs == 4        \* macros before the TYPE_END macro
MaxTail == 1        \* the bytes after TYPE_END are erased, or 1..MaxTail fillings
MaxRuns == 2        \* calls of compress() in a row
MaxSmall == 4       \* layer, row and column values 0..MaxSmall are all tried
MaxAppends == 2     \* macros recorded after the start
MaxBefore == 1      \* macros before the TYPE_END macro when recording starts

Key(p, l, r, c) == [pressed |-> p, layer |-> l, row |-> r, column |-> c]
KeyZero == Key(FALSE, 0, 0, 0)
KeyExample == Key(FALSE, 4, 25, 35)

\* bytes that look like types, lengths and key-action bytes
Pattern == <<255, 0, 1, 2, 129, 64>>
FillByte(seed, j) == Pattern[((seed + j) % Len(Pattern)) + 1]
TailLength(t) == IF t = 0 THEN 0 ELSE 4 + t

\* the key-action bytes write_key_action() produces for k
Enc(k) ==
    LET ops == write_key_action(EEMEM_MACROS_START, k).ops
    IN  [j \in 1..Len(ops) |-> ops[j].val]

Desc(type, k, n) == [type |-> type, k |-> k, n |-> n]

DescSet ==
    { Desc(TYPE_DELETED, KeyZero, 0),
      Desc(TYPE_VALID_MACRO, KeyZero, 0), Desc(TYPE_VALID_MACRO, KeyExample, 1),
      Desc(TYPE_CONTINUED, KeyZero, 1) }

\* type, length, then the data of the macro
MacroBytes(d, seed) ==
    LET key  == IF d.type = TYPE_VALID_MACRO THEN Enc(d.k) ELSE <<>>
        data == key \o [j \in 1..d.n |-> FillByte(seed, j)]
    IN  <<d.type, 2 + Len(data)>> \o data

RECURSIVE SeriesBytes(_, _)
SeriesBytes(ds, seed) ==
    IF ds = <<>> THEN <<>>
    ELSE MacroBytes(Head(ds), seed) \o SeriesBytes(Tail(ds), seed + 1)

HeaderBytes ==
    << EEMEM_START \div 256, EEMEM_START % 256,
       EEMEM_END \div 256, EEMEM_END % 256, VERSION >>

Fits(ds) == EEMEM_MACROS_START + Len(SeriesBytes(ds, 0)) + TailLength(MaxTail) <= EEMEM_MACROS_END

Layout(ds, t) ==
    LET b == SeriesBytes(ds, 0) IN
    [a \in EEMEM_START..(EEMEM_MACROS_START + Len(b) + TailLength(t)) |->
        IF a < EEMEM_MACROS_START THEN HeaderBytes[a - EEMEM_START + 1]
        ELSE IF a - EEMEM_MACROS_START < Len(b) THEN b[a - EEMEM_MACROS_START + 1]
        ELSE IF a - EEMEM_MACROS_START = Len(b) THEN TYPE_END
        ELSE FillByte(t, a)]

\* macros of the greatest length a length byte can give
LongValid == Desc(TYPE_VALID_MACRO, KeyExample, 250)
LongContinued == Desc(TYPE_CONTINUED, KeyZero, 253)
LongAreas ==
    LET d == Desc(TYPE_DELETED, KeyZero, 0)
        v == Desc(TYPE_VALID_MACRO, KeyZero, 0)
    IN  { <<d, LongValid, LongContinued>>, <<v, LongValid, LongContinued, v>>,
          <<LongValid, v, LongContinued>> }

Areas == { ds \in UNION { [1..n -> DescSet] : n \in 0..MaxRecs } \cup LongAreas : Fits(ds) }

-----------------------------------------------------------------------------
(* reading the MACROS section as the series of macros the layout describes *)

HasLength(type) == type \in {TYPE_DELETED, TYPE_VALID_MACRO, TYPE_CONTINUED}

\* len cells from address a on
CellsFrom(m, a, len) == [j \in 1..len |-> Cell(m, a + j - 1)]

\* the macro at a: its address, type, length and bytes
MacroAt(m, a) ==
    LET len == Cell(m, a + 1)
    IN  [addr |-> a, type |-> Cell(m, a), len |-> len, bytes |-> CellsFrom(m, a, len)]

\* a macro with a type and a length that keeps it inside the section and, for
\* a valid macro, holds the whole of key-action 0
MacroOk(m, a) ==
    /\ HasLength(Cell(m, a))
    /\ a + 1 <= EEMEM_MACROS_END
    /\ Cell(m, a + 1) >= 2
    /\ a + Cell(m, a + 1) <= EEMEM_MACROS_END
    /\ Cell(m, a) = TYPE_VALID_MACRO =>
          /\ Cell(m, a + 1) >= 3
          /\ \E n \in 1..4 :
                /\ n <= Cell(m, a + 1) - 2
                /\ Cell(m, a + 1 + n) < 128
                /\ \A j \in 1..(n - 1) : Cell(m, a + 1 + j) >= 128

RECURSIVE ParsesFrom(_, _)
ParsesFrom(m, a) ==
    IF Cell(m, a) = TYPE_END THEN TRUE
    ELSE MacroOk(m, a) /\ ParsesFrom(m, a + Cell(m, a + 1))

WellFormed(m) == ParsesFrom(m, EEMEM_MACROS_START)

\* the macros before the TYPE_END macro, in address order (of a well-formed
\* section)
RECURSIVE SeriesFrom(_, _)
SeriesFrom(m, a) ==
    IF Cell(m, a) = TYPE_END THEN <<>>
    ELSE <<MacroAt(m, a)>> \o SeriesFrom(m, a + Cell(m, a + 1))

Series(m) == SeriesFrom(m, EEMEM_MACROS_START)

RECURSIVE EndFrom(_, _)
EndFrom(m, a) == IF Cell(m, a) = TYPE_END THEN a ELSE EndFrom(m, a + Cell(m, a + 1))

\* the address of the TYPE_END macro
EndAddress(m) == EndFrom(m, EEMEM_MACROS_START)

-----------------------------------------------------------------------------
(* the store: compress(), find_key_action(), marking a macro deleted, and  *)
(* the EEPROM wrapper applying what was scheduled                          *)

NoArg == [k |-> KeyZero, to |-> 0]
NoRet == [op |-> "none", val |-> 0, k |-> KeyZero, reads |-> <<>>, done |-> TRUE]
\* the bytes of the valid macros of the series, in address order
IsValid(r) == r.type = TYPE_VALID_MACRO
ValidBytes(m) ==
    LET valid == SelectSeq(Series(m), IsValid)
    IN  [j \in 1..Len(valid) |-> valid[j].bytes]

NoHist(m) ==
    [pre |-> m, ops |-> <<>>, runs |-> 0,
     rec |-> 0, k |-> KeyZero, phase |-> "none", appends |-> 0,
     iters |-> 0, chunks |-> 0, done |-> TRUE, clean |-> TRUE, nowrap |-> TRUE,
     live |-> ValidBytes(m)]

LookupKeys == {KeyZero, KeyExample, Key(TRUE, 0, 0, 0)}

\* the cursors as a scan of the section gives them: end_macro at the TYPE_END
\* macro, new_end_macro just past it
InitCursors ==
    /\ end_macro = EndAddress(mem)
    /\ new_end_macro = end_macro + 1

Init ==
    /\ \E ds \in Areas, t \in 0..MaxTail : mem = Layout(ds, t)
    /\ queue = <<>>
    /\ InitCursors
    /\ arg = NoArg
    /\ ret = NoRet
    /\ hist = NoHist(mem)

\* the oldest scheduled write or copy takes effect
Flush ==
    /\ queue # <<>>
    /\ mem' = Apply(mem, Head(queue))
    /\ queue' = Tail(queue)
    /\ UNCHANGED <<end_macro, new_end_macro, arg, ret, hist>>

Compress ==
    /\ queue = <<>>
    /\ hist.runs < MaxRuns
    /\ LET c == compress(mem, new_end_macro, FALSE) IN
          /\ queue' = c.ops
          /\ hist' = [hist EXCEPT !.pre = mem, !.ops = c.ops, !.runs = @ + 1,
                                   !.iters = c.iters, !.chunks = c.chunks,
                                   !.done = c.done, !.clean = c.clean,
                                   !.nowrap = c.nowrap]
    /\ arg' = NoArg
    /\ ret' = [NoRet EXCEPT !.op = "compress"]
    /\ UNCHANGED <<mem, end_macro, new_end_macro>>

FindKeyAction ==
    /\ queue = <<>>
    /\ \E k \in LookupKeys :
          /\ arg' = [NoArg EXCEPT !.k = k]
          /\ ret' = [NoRet EXCEPT !.op = "find_key_action", !.val = find_key_action(mem, k)]
    /\ UNCHANGED <<mem, queue, end_macro, new_end_macro, hist>>

\* a valid macro's type is set to TYPE_DELETED
MarkDeleted ==
    /\ queue = <<>>
    /\ \E i \in 1..Len(Series(mem)) :
          LET r == Series(mem)[i] IN
          /\ r.type = TYPE_VALID_MACRO
          /\ queue' = <<WriteOp(r.addr, TYPE_DELETED)>>
          /\ arg' = [NoArg EXCEPT !.to = r.addr]
          /\ hist' = [hist EXCEPT !.pre = mem, !.ops = queue', !.runs = 0,
                                   !.live = Without(@, Len(SelectSeq(SubSeq(Series(mem), 1, i),
                                                                     IsValid))),
                                   !.phase = IF @ = "appended" /\ hist.rec = r.addr
                                             THEN "deleted" ELSE @,
                                   !.iters = 0, !.chunks = 0,
                                   !.done = TRUE, !.clean = TRUE, !.nowrap = TRUE]
    /\ ret' = [NoRet EXCEPT !.op = "clear"]
    /\ UNCHANGED <<mem, end_macro, new_end_macro>>

Next == Compress \/ Flush \/ MarkDeleted

Spec == Init /\ [][Next]_vars

-----------------------------------------------------------------------------
(* looking macros up while macros are recorded and cleared.  Recording is  *)
(* the store operation "append a ValidMacro record for a trigger": the new *)
(* macro goes where the TYPE_END macro is, its key-actions are written     *)
(* with write_key_action(), a new TYPE_END follows it, and its type is     *)
(* written last.  A key-action has at most one macro remapping it.         *)

\* the release (or press) that goes with k
Opposite(k) == [k EXCEPT !.pressed = ~k.pressed]

\* whether the macros recorded for k hold a key-action after key-action 0
Replays(k) == k = KeyExample

RecordMacro ==
    /\ queue = <<>>
    /\ hist.appends < MaxAppends
    /\ \E k \in LookupKeys :
          LET replay == Replays(k)
              w0  == write_key_action(end_macro + 2, k)
              w1  == IF replay THEN write_key_action(end_macro + 2 + w0.ret, Opposite(k))
                               ELSE [ret |-> 0, ops |-> <<>>]
              len == 2 + w0.ret + w1.ret
          IN  /\ find_key_action(mem, k) = 0
              /\ w0.ret # 0
              /\ replay => w1.ret # 0
              /\ queue' = <<WriteOp(end_macro + 1, len)>> \o w0.ops \o w1.ops
                             \o <<WriteOp(end_macro + len, TYPE_END),
                                  WriteOp(end_macro, TYPE_VALID_MACRO)>>
              /\ end_macro' = end_macro + len
              /\ new_end_macro' = end_macro + len + 1
              /\ arg' = [NoArg EXCEPT !.k = k, !.to = end_macro]
              /\ hist' = [hist EXCEPT !.pre = mem, !.ops = queue', !.runs = 0,
                                       !.rec = end_macro, !.k = k,
                                       !.phase = "appended", !.appends = @ + 1]
    /\ ret' = [NoRet EXCEPT !.op = "record"]
    /\ UNCHANGED mem

InitRecord ==
    /\ \E ds \in Areas, t \in 0..MaxTail : Len(ds) <= MaxBefore /\ mem = Layout(ds, t)
    /\ queue = <<>>
    /\ InitCursors
    /\ arg = NoArg
    /\ ret = NoRet
    /\ hist = NoHist(mem)

NextRecord == RecordMacro \/ MarkDeleted \/ Flush \/ FindKeyAction

SpecRecord == InitRecord /\ [][NextRecord]_vars

\* looking macros up in any series, while macros are cleared
NextLookup == MarkDeleted \/ Flush \/ FindKeyAction

SpecLookup == Init /\ [][NextLookup]_vars

-----------------------------------------------------------------------------
(* the navigators on their own: a scan from the address of any macro of    *)
(* the series, the TYPE_END macro included                                 *)

\* series with deleted macros that still hold data
NavAreas ==
    LET d == Desc(TYPE_DELETED, KeyZero, 3)
        v == Desc(TYPE_VALID_MACRO, KeyExample, 1)
        c == Desc(TYPE_CONTINUED, KeyZero, 1)
    IN  { <<d>>, <<d, v>>, <<v, d, c>>, <<c, d, d, v>>, <<d, c, d, c>> }

MacroAddresses(m) == { Series(m)[i].addr : i \in 1..Len(Series(m)) } \cup { EndAddress(m) }

InitNav ==
    /\ \E ds \in Areas \cup NavAreas, t \in 0..MaxTail : mem = Layout(ds, t)
    /\ queue = <<>>
    /\ InitCursors
    /\ arg = NoArg
    /\ ret = NoRet
    /\ hist = NoHist(mem)

FindNextDeleted ==
    /\ queue = <<>>
    /\ \E start \in MacroAddresses(mem) :
          LET r == find_next_deleted_scan(mem, start, <<>>) IN
          /\ arg' = [NoArg EXCEPT !.to = start]
          /\ ret' = [NoRet EXCEPT !.op = "find_next_deleted", !.val = r.ret,
                                   !.reads = r.reads, !.done = r.done]
    /\ UNCHANGED <<mem, queue, end_macro, new_end_macro, hist>>

FindNextNondeleted ==
    /\ queue = <<>>
    /\ \E start \in MacroAddresses(mem) :
          LET r == find_next_nondeleted_scan(mem, start, <<>>) IN
          /\ arg' = [NoArg EXCEPT !.to = start]
          /\ ret' = [NoRet EXCEPT !.op = "find_next_nondeleted", !.val = r.ret,
                                   !.reads = r.reads, !.done = r.done]
    /\ UNCHANGED <<mem, queue, end_macro, new_end_macro, hist>>

NextNav == FindNextDeleted \/ FindNextNondeleted

SpecNav == InitNav /\ [][NextNav]_vars

-----------------------------------------------------------------------------
(* one call of compress() with an EEPROM wrapper that may let any of the   *)
(* scheduled writes and copies take effect next, not only the oldest       *)

MaxShuffled == 3    \* macros before the TYPE_END macro when the order is free

InitShuffle ==
    /\ \E ds \in Areas \cup NavAreas, t \in 0..MaxTail :
          Len(ds) <= MaxShuffled /\ mem = Layout(ds, t)
    /\ queue = <<>>
    /\ InitCursors
    /\ arg = NoArg
    /\ ret = NoRet
    /\ hist = [NoHist(mem) EXCEPT !.runs = MaxRuns - 1]

\* any scheduled write or copy takes effect
ApplyAny ==
    /\ queue # <<>>
    /\ \E i \in 1..Len(queue) :
          /\ mem' = Apply(mem, queue[i])
          /\ queue' = Without(queue, i)
          /\ hist' = [hist EXCEPT !.phase = IF i # 1 THEN "shuffled" ELSE @]
    /\ UNCHANGED <<end_macro, new_end_macro, arg, ret>>

NextShuffle == Compress \/ ApplyAny

SpecShuffle == InitShuffle /\ [][NextShuffle]_vars

-----------------------------------------------------------------------------
(* initialization: eeprom_macro__init() called on a section whose          *)
(* START_ADDRESS, END_ADDRESS and VERSION blocks may not have the expected *)
(* values                                                                  *)

\* x with bit b inverted
FlipBit(x, b) == IF (x \div (2 ^ b)) % 2 = 1 THEN x - (2 ^ b) ELSE x + (2 ^ b)

HeaderAddresses == EEMEM_START_ADDRESS_START..EEMEM_VERSION_END

\* the three blocks have the expected values
HeaderValid(m) == \A a \in HeaderAddresses : Cell(m, a) = HeaderBytes[a - EEMEM_START + 1]

\* an EEPROM that was never written
Erased == [a \in {} |-> ERASED]

InitBoot ==
    /\ \/ \E ds \in Areas, t \in 0..MaxTail : Len(ds) <= MaxBefore /\ mem = Layout(ds, t)
       \/ mem = Erased
    /\ queue = <<>>
    /\ InitCursors
    /\ arg = NoArg
    /\ ret = NoRet
    /\ hist = NoHist(mem)

\* one bit of one byte of the three blocks changes
CorruptHeader ==
    /\ queue = <<>>
    /\ hist.phase = "none"
    /\ \E a \in HeaderAddresses, b \in 0..7 :
          /\ mem' = Store(mem, a, FlipBit(Cell(mem, a), b))
          /\ arg' = [NoArg EXCEPT !.to = a]
    /\ ret' = [NoRet EXCEPT !.op = "flip"]
    /\ hist' = [hist EXCEPT !.phase = "flipped"]
    /\ UNCHANGED <<queue, end_macro, new_end_macro>>

\* uint8_t eeprom_macro__init(void) { return 0; }
EepromMacroInit ==
    /\ queue = <<>>
    /\ ret.op # "eeprom_macro__init"
    /\ ret' = [NoRet EXCEPT !.op = "eeprom_macro__init", !.val = 0]
    /\ hist' = [hist EXCEPT !.pre = mem, !.ops = <<>>]
    /\ UNCHANGED <<mem, queue, end_macro, new_end_macro, arg>>

NextBoot == CorruptHeader \/ EepromMacroInit

SpecBoot == InitBoot /\ [][NextBoot]_vars

-----------------------------------------------------------------------------
(* the codec on its own: one key-action written at `to` and read back      *)

\* every combination of a few values, and every value 0..255 of layer, of row
\* and of column beside a few values of the other two
CodecValues == (0..MaxSmall) \cup {25, 35, 64, 128, 255}
AxisValues == {0, 35, 255}
Uint8 == 0..255
CodecKeys ==
    { Key(p, l, r, c) : p \in BOOLEAN, l \in CodecValues,
                        r \in CodecValues, c \in CodecValues }
    \cup { Key(p, l, r, c) : p \in BOOLEAN, l \in Uint8, r \in AxisValues, c \in AxisValues }
    \cup { Key(p, l, r, c) : p \in BOOLEAN, l \in AxisValues, r \in Uint8, c \in AxisValues }
    \cup { Key(p, l, r, c) : p \in BOOLEAN, l \in AxisValues, r \in AxisValues, c \in Uint8 }
CodecTos == { EEMEM_MACROS_START + 1, EEMEM_END - 4, EEMEM_END - 3 }

InitCodec ==
    /\ mem = Layout(<<>>, 0)
    /\ queue = <<>>
    /\ InitCursors
    /\ \E k \in CodecKeys, to \in CodecTos : arg = [k |-> k, to |-> to]
    /\ ret = NoRet
    /\ hist = NoHist(mem)

WriteKeyAction ==
    /\ queue = <<>>
    /\ ret.op = "none"
    /\ LET w == write_key_action(arg.to, arg.k) IN
          /\ queue' = w.ops
          /\ ret' = [NoRet EXCEPT !.op = "write_key_action", !.val = w.ret]
          /\ hist' = [hist EXCEPT !.pre = mem, !.ops = w.ops]
    /\ UNCHANGED <<mem, end_macro, new_end_macro, arg>>

\* the key-action is read back from where it was written
ReadKeyAction ==
    /\ queue = <<>>
    /\ ret.op = "write_key_action"
    /\ ret.val # 0
    /\ LET r == read_key_action(mem, arg.to) IN
          ret' = [NoRet EXCEPT !.op = "read_key_action", !.val = r.from - arg.to, !.k = r.k]
    /\ UNCHANGED <<mem, queue, end_macro, new_end_macro, arg, hist>>

NextCodec == WriteKeyAction \/ Flush \/ ReadKeyAction

SpecCodec == InitCodec /\ [][NextCodec]_vars

-----------------------------------------------------------------------------
(* compress(): what is left of the series *)

RECURSIVE TypesOf(_)
TypesOf(series) ==
    IF series = <<>> THEN <<>> ELSE <<Head(series).type>> \o TypesOf(Tail(series))

RECURSIVE BytesOf(_)
BytesOf(series) ==
    IF series = <<>> THEN <<>> ELSE <<Head(series).bytes>> \o BytesOf(Tail(series))

NotDeleted(r) == r.type # TYPE_DELETED

\* the macros that are neither deleted nor a continuation left behind by a
\* deleted macro (inrun: the last macro that is not a continuation was deleted)
RECURSIVE Surviving(_, _)
Surviving(series, inrun) ==
    IF series = <<>> THEN <<>>
    ELSE LET r == Head(series) IN
         IF r.type = TYPE_DELETED THEN Surviving(Tail(series), TRUE)
         ELSE IF r.type = TYPE_CONTINUED /\ inrun THEN Surviving(Tail(series), TRUE)
         ELSE <<r>> \o Surviving(Tail(series), FALSE)

CompressDone == ret.op = "compress" /\ queue = <<>>

\* C1 as stated: once compress() has run and its writes are applied, the
\* series is the series before it without the deleted macros, every remaining
\* macro byte for byte as it was and in the same order, then TYPE_END.
C1_AsStated ==
    CompressDone =>
        /\ WellFormed(mem)
        /\ BytesOf(Series(mem)) = BytesOf(SelectSeq(Series(hist.pre), NotDeleted))

\* C1 amended: once compress() has run and its writes are applied, the series
\* is the series before it without the deleted macros and without the
\* continued macros that follow a deleted macro (directly or after other
\* continued macros); every remaining macro is byte for byte as it was, type
\* and length included, in the same order, and TYPE_END follows.
C1_CompressKeepsSurvivors ==
    CompressDone =>
        /\ WellFormed(mem)
        /\ BytesOf(Series(mem)) = BytesOf(Surviving(Series(hist.pre), FALSE))

C1_Witness ==
    /\ CompressDone
    /\ TypesOf(Series(hist.pre)) =
          <<TYPE_VALID_MACRO, TYPE_DELETED, TYPE_VALID_MACRO, TYPE_DELETED>>
    /\ TypesOf(Series(mem)) = <<TYPE_VALID_MACRO, TYPE_VALID_MACRO>>

\* C2: while compress()'s writes and copies are being applied in the order
\* they were issued, after each of them the bytes from EEMEM_MACROS_START are
\* a series of macros, each at its predecessor's address plus length, that
\* ends with TYPE_END.
C2_AlwaysParses == ret.op = "compress" => WellFormed(mem)

\* the number of compress()'s writes and copies that have been applied
Applied == Len(hist.ops) - Len(queue)

C2_Witness ==
    /\ ret.op = "compress"
    /\ queue # <<>>
    /\ Applied >= 2
    /\ hist.ops[1] = WriteOp(find_next_deleted(hist.pre, EEMEM_MACROS_START), TYPE_END)
    /\ hist.ops[Applied].op = "write"
    /\ hist.ops[Applied].val = TYPE_VALID_MACRO

\* C3: when compress() runs a second time with nothing deleted in between,
\* every byte is afterwards what it was after the first run.
C3_Idempotent == (CompressDone /\ hist.runs >= 2) => mem = hist.pre

C3_Witness ==
    /\ CompressDone
    /\ hist.runs = 2
    /\ mem # Layout(<<>>, 0)
    /\ \E t \in 0..MaxTail, ds \in Areas :
          /\ TYPE_DELETED \in {ds[i].type : i \in 1..Len(ds)}
          /\ TYPE_VALID_MACRO \in {ds[i].type : i \in 1..Len(ds)}
          /\ BytesOf(Series(mem)) = BytesOf(Surviving(Series(Layout(ds, t)), FALSE))
          /\ mem # Layout(ds, t)

-----------------------------------------------------------------------------
(* the codec: number of bytes, layout of the bytes, room, round trip *)

\* pair g of x, pair 0 being the most significant pair of bits
Group(x, g) == (x \div (4 ^ (3 - g))) % 4
GroupZero(k, g) == Group(k.layer, g) = 0 /\ Group(k.row, g) = 0 /\ Group(k.column, g) = 0

\* the leading pairs that are zero in all of layer, row and column, the least
\* significant pair not counted
LeadingZeroGroups(k) == Cardinality({ g \in 0..2 : \A h \in 0..g : GroupZero(k, h) })

Max3(a, b, c) == IF a >= b /\ a >= c THEN a ELSE IF b >= c THEN b ELSE c

\* the pairs of bits from the most significant nonzero pair of
\* layer|row|column down, at least one
PairsNeeded(k) ==
    LET x == Max3(k.layer, k.row, k.column)
    IN  CHOOSE n \in 1..4 : x < 4 ^ n /\ (n = 1 \/ x >= 4 ^ (n - 1))

WroteKey == ret.op = "write_key_action" /\ ret.val # 0

\* C4: the key-action read back by read_key_action() from where
\* write_key_action() wrote it equals the one written in pressed, layer, row
\* and column, and the read stops right after the bytes that were written.
C4_RoundTrip ==
    ret.op = "read_key_action" =>
        /\ SameKey(arg.k, ret.k)
        /\ ret.k.pressed \in BOOLEAN
        /\ ret.val = Len(hist.ops)
        /\ hist.ops[1].to = arg.to

C4_Witness ==
    /\ ret.op = "read_key_action"
    /\ arg.k = Key(TRUE, 255, 0, 128)
    /\ ret.k = arg.k
    /\ ret.val = 4

\* C5 as stated: write_key_action() writes 1 plus the number of leading
\* all-zero pairs it skipped, a number in 1..4.
C5_AsStated ==
    WroteKey =>
        /\ ret.val = 1 + LeadingZeroGroups(arg.k)
        /\ Len(hist.ops) = ret.val
        /\ ret.val \in 1..4

\* C5 amended: write_key_action() writes 4 minus the number of leading
\* all-zero pairs it skipped (at most 3 are skipped), a number in 1..4.
C5_FourMinusSkipped ==
    WroteKey =>
        /\ ret.val = 4 - LeadingZeroGroups(arg.k)
        /\ Len(hist.ops) = ret.val
        /\ ret.val \in 1..4

C5_Witness ==
    /\ WroteKey
    /\ arg.k = KeyExample
    /\ LeadingZeroGroups(arg.k) = 1
    /\ Len(hist.ops) = 3

\* C6: a successful write_key_action() writes 1 to 4 bytes at to, to+1, ...
\* and returns how many; the number is the number of pairs from the most
\* significant nonzero pair of layer|row|column down to the least significant
\* pair, so layer = row = column = 0 is written as 1 byte.
C6_CountAndAddresses ==
    WroteKey =>
        /\ ret.val \in 1..4
        /\ ret.val = PairsNeeded(arg.k)
        /\ Len(hist.ops) = ret.val
        /\ \A j \in 1..Len(hist.ops) :
              hist.ops[j].op = "write" /\ hist.ops[j].to = arg.to + j - 1
        /\ (arg.k.layer = 0 /\ arg.k.row = 0 /\ arg.k.column = 0) => ret.val = 1

C6_Witness ==
    /\ WroteKey
    /\ arg.k = Key(TRUE, 0, 0, 0)
    /\ hist.ops = <<WriteOp(arg.to, 64)>>
    /\ queue = <<>>
    /\ Cell(mem, arg.to) = 64

\* byte j of the n bytes of key-action k as the layout describes it
LayoutByte(k, n, j) ==
    LET g == 4 - n + (j - 1) IN
      (IF j < n THEN 128 ELSE 0)
    + (IF j = 1 THEN BoolBit(k.pressed) * 64 ELSE 64)
    + (Group(k.layer, g) * 16) + (Group(k.row, g) * 4) + Group(k.column, g)

\* C7: in every byte write_key_action() writes, bit 7 is 1 exactly when
\* another byte of the key-action follows, bit 6 is pressed in the first byte
\* and 1 in the later ones, bits 5-4, 3-2 and 1-0 are the pair of layer, row
\* and column, most significant written pair first; the example of the
\* layout's documentation is written as 0b10000110, 0b11011000, 0b01000111.
C7_ByteLayout ==
    WroteKey =>
        /\ \A j \in 1..Len(hist.ops) :
              hist.ops[j].val = LayoutByte(arg.k, Len(hist.ops), j)
        /\ arg.k = KeyExample =>
              /\ Len(hist.ops) = 3
              /\ hist.ops[1].val = 134 /\ hist.ops[2].val = 216 /\ hist.ops[3].val = 71

C7_Witness ==
    /\ WroteKey
    /\ arg.k = KeyExample
    /\ queue = <<>>
    /\ Cell(mem, arg.to) = 134
    /\ Cell(mem, arg.to + 1) = 216
    /\ Cell(mem, arg.to + 2) = 71

\* C8: with to > EEMEM_END - 4 write_key_action() returns 0 and schedules no
\* write, so no byte changes; when it succeeds every byte it writes is at an
\* address of at most EEMEM_END - 1.
C8_Headroom ==
    ret.op = "write_key_action" =>
        /\ arg.to > EEMEM_END - 4 =>
              ret.val = 0 /\ hist.ops = <<>> /\ queue = <<>> /\ mem = hist.pre
        /\ ret.val # 0 =>
              \A j \in 1..Len(hist.ops) : hist.ops[j].to <= EEMEM_END - 1

C8_Witness ==
    /\ ret.op = "write_key_action"
    /\ arg.to = EEMEM_END - 3
    /\ arg.k = KeyExample
    /\ ret.val = 0
    /\ mem = hist.pre

\* a success with the last byte at EEMEM_END - 1
C8_WitnessLastRoom ==
    /\ WroteKey
    /\ arg.to = EEMEM_END - 4
    /\ ret.val = 4
    /\ queue = <<>>
    /\ Cell(mem, EEMEM_END - 1) < 128

-----------------------------------------------------------------------------
(* find_key_action *)

\* key-action 0 of the macro at a
TriggerAt(m, a) == read_key_action(m, a + 2).k

\* the places in the series of the valid macros that remap k
Matches(m, k) ==
    { i \in 1..Len(Series(m)) :
        /\ Series(m)[i].type = TYPE_VALID_MACRO
        /\ TriggerAt(m, Series(m)[i].addr) = k }

Least(S) == CHOOSE i \in S : \A j \in S : i <= j

Found == ret.op = "find_key_action"

\* C9: find_key_action(k) returns the address of the first macro in address
\* order that is valid and whose key-action 0 equals k in pressed, layer, row
\* and column; it never returns the address of a deleted or continued macro;
\* it returns 0, which is not the address of any macro, exactly when there is
\* no such valid macro before TYPE_END.
C9_FirstValidMatch ==
    Found =>
        /\ Matches(mem, arg.k) = {} <=> ret.val = 0
        /\ Matches(mem, arg.k) # {} =>
              ret.val = Series(mem)[Least(Matches(mem, arg.k))].addr
        /\ ret.val # 0 => Cell(mem, ret.val) = TYPE_VALID_MACRO
        /\ \A i \in 1..Len(Series(mem)) : Series(mem)[i].addr # 0
        /\ EndAddress(mem) # 0

\* found behind a deleted macro that held the same key-action, with a second
\* valid macro for it further on
C9_Witness ==
    /\ Found
    /\ ret.val # 0
    /\ Cardinality(Matches(mem, arg.k)) = 2
    /\ \E i \in 1..Len(Series(mem)) :
          /\ Series(mem)[i].type = TYPE_DELETED
          /\ Series(mem)[i].len >= 3
          /\ TriggerAt(mem, Series(mem)[i].addr) = arg.k
          /\ Series(mem)[i].addr < ret.val

C9_WitnessNotFound ==
    /\ Found
    /\ ret.val = 0
    /\ \E i \in 1..Len(Series(mem)) :
          /\ Series(mem)[i].type = TYPE_VALID_MACRO
          /\ TriggerAt(mem, Series(mem)[i].addr) = Opposite(arg.k)

C10_WitnessAppended ==
    /\ Found
    /\ arg.k = hist.k
    /\ hist.phase = "appended"
    /\ ret.val = hist.rec
    /\ ret.val > EEMEM_MACROS_START

-----------------------------------------------------------------------------
(* the navigators *)

Navigated == ret.op \in {"find_next_deleted", "find_next_nondeleted"}

\* C11: on a well-formed series, from the address of any macro of it,
\* find_next_deleted() and find_next_nondeleted() leave their loop (after no
\* more type reads than there are macros from the start to TYPE_END), every
\* address at which they read a type is the address of a macro of the series,
\* and none is beyond the TYPE_END macro.
C11_NavigatorsTerminate ==
    (Navigated /\ WellFormed(mem)) =>
        /\ ret.done
        /\ Len(ret.reads) <= Len(Series(mem)) + 1
        /\ \A j \in 1..Len(ret.reads) :
              /\ ret.reads[j] \in MacroAddresses(mem)
              /\ ret.reads[j] <= EndAddress(mem)
        /\ ret.op = "find_next_deleted" => ret.val = find_next_deleted(mem, arg.to)
        /\ ret.op = "find_next_nondeleted" => ret.val = find_next_nondeleted(mem, arg.to)

\* a scan over deleted and continued macros that stops at TYPE_END, with
\* bytes after TYPE_END that are not erased
C11_Witness ==
    /\ ret.op = "find_next_nondeleted"
    /\ ret.done
    /\ Len(ret.reads) >= 4
    /\ ret.val = EndAddress(mem)
    /\ ret.reads[Len(ret.reads)] = EndAddress(mem)
    /\ Cell(mem, EndAddress(mem) + 1) \in {TYPE_DELETED, TYPE_CONTINUED}

-----------------------------------------------------------------------------
(* compress(): the cursors *)

HadDeleted == \E i \in 1..Len(Series(hist.pre)) : Series(hist.pre)[i].type = TYPE_DELETED

\* C12: once compress() has run on a series with a deleted macro and its
\* writes are applied, end_macro is the address of the TYPE_END macro of the
\* series that is left and new_end_macro is where the next macro's bytes go
\* (at, or just past, that TYPE_END macro).
C12_CursorsUpdated ==
    (CompressDone /\ HadDeleted) =>
        /\ end_macro = EndAddress(mem)
        /\ new_end_macro \in {EndAddress(mem), EndAddress(mem) + 1}

-----------------------------------------------------------------------------
(* compress(): its loops *)

\* new_end_macro was just past the TYPE_END macro when compress() was called
FreshFrontier == new_end_macro = EndAddress(hist.pre) + 1

Compressed == ret.op = "compress" /\ WellFormed(hist.pre) /\ FreshFrontier

NumDeleted(series) == Cardinality({ i \in 1..Len(series) : series[i].type = TYPE_DELETED })

\* C13: called on a well-formed series with new_end_macro just past the
\* TYPE_END macro, compress() leaves both of its loops: the while loop after
\* at most one round per deleted macro, the for loops after at most one round
\* per 255 bytes between MACROS_START and new_end_macro (and one more) each.
C13_CompressTerminates ==
    Compressed =>
        /\ hist.done
        /\ hist.iters <= NumDeleted(Series(hist.pre))
        /\ hist.chunks <= hist.iters * (1 + ((new_end_macro - EEMEM_MACROS_START) \div UINT8_MAX))

\* two rounds of the while loop, and a for loop with two rounds
C13_Witness ==
    /\ Compressed
    /\ hist.done
    /\ hist.iters = 2
    /\ hist.chunks >= 2
    /\ \E j \in 1..Len(hist.ops) : hist.ops[j].op = "copy" /\ hist.ops[j].len = UINT8_MAX

-----------------------------------------------------------------------------
(* compress(): writes that are delayed and writes that are not *)

\* C14: called on a well-formed series, compress() reads no address (with
\* eeprom__read(), or as the source of a copy) that a write or copy it issued
\* before goes to; and once its delayed writes and copies are applied in the
\* order they were issued, every byte is what it is when each write and copy
\* is applied at the moment it is issued, the same writes and copies being
\* issued either way.
C14_DelayedAsImmediate ==
    (CompressDone /\ WellFormed(hist.pre)) =>
        /\ hist.clean
        /\ LET now == compress(hist.pre, new_end_macro, TRUE) IN
              /\ now.clean
              /\ now.ops = hist.ops
              /\ now.m = mem

\* a pass with two spans copied, the first closed by a TYPE_END write
C14_Witness ==
    /\ CompressDone
    /\ WellFormed(hist.pre)
    /\ hist.iters >= 2
    /\ Cardinality({ j \in 1..Len(hist.ops) : hist.ops[j].op = "copy" }) >= 2
    /\ mem # hist.pre
    /\ compress(hist.pre, new_end_macro, TRUE).m = mem

-----------------------------------------------------------------------------
(* initialization *)

Initialized == ret.op = "eeprom_macro__init" /\ queue = <<>>

\* C15: the three blocks are valid only with the build's EEMEM_START,
\* EEMEM_END and VERSION in them (VERSION is neither 0x00 nor 0xFF); with one
\* bit of one of them flipped they are not valid, and once initialization has
\* then run the blocks hold the expected values again and the macros are a
\* single TYPE_END.
C15_ReinitOnMismatch ==
    /\ VERSION \notin {0, 255}
    /\ hist.phase = "flipped" /\ ret.op = "flip" => ~HeaderValid(mem)
    /\ (Initialized /\ hist.phase = "flipped") =>
          /\ ~HeaderValid(hist.pre)
          /\ HeaderValid(mem)
          /\ Cell(mem, EEMEM_MACROS_START) = TYPE_END

\* C16: initialization of a section that is not valid writes START_ADDRESS,
\* END_ADDRESS and a TYPE_END at MACROS_START, and writes VERSION as its last
\* write; while that last write has not been applied the section is not
\* valid.
C16_VersionLast ==
    (ret.op = "eeprom_macro__init" /\ ~HeaderValid(hist.pre)) =>
        /\ hist.ops # <<>>
        /\ hist.ops[Len(hist.ops)] = WriteOp(EEMEM_VERSION_START, VERSION)
        /\ \A a \in (HeaderAddresses \ {EEMEM_VERSION_START}) \cup {EEMEM_MACROS_START} :
              \E j \in 1..(Len(hist.ops) - 1) : hist.ops[j].op = "write" /\ hist.ops[j].to = a
        /\ queue # <<>> => ~HeaderValid(mem)
        /\ queue = <<>> => HeaderValid(mem) /\ Cell(mem, EEMEM_MACROS_START) = TYPE_END

-----------------------------------------------------------------------------
(* compress(): its copies *)

IsCopy(j) == j \in 1..Len(hist.ops) /\ hist.ops[j].op = "copy"

\* C17: called on a well-formed series with new_end_macro just past the
\* TYPE_END macro, every eeprom__copy() of compress() has a length of 1 to
\* 255, copies bytes of the macros below new_end_macro to addresses of the
\* macros below them, and a copy that follows a copy continues where that
\* one stopped, in source and in destination; next - to_compress is never
\* taken with next below to_compress.
C17_CopiesInRange ==
    Compressed =>
        /\ hist.nowrap
        /\ \A j \in 1..Len(hist.ops) :
              IsCopy(j) =>
                 LET o == hist.ops[j] IN
                 /\ o.len \in 1..UINT8_MAX
                 /\ EEMEM_MACROS_START < o.from
                 /\ o.from + o.len - 1 < new_end_macro
                 /\ new_end_macro - 1 <= EEMEM_MACROS_END
                 /\ EEMEM_MACROS_START < o.to
                 /\ o.to < o.from
                 /\ IsCopy(j + 1) =>
                       /\ o.len = UINT8_MAX
                       /\ hist.ops[j + 1].to = o.to + o.len
                       /\ hist.ops[j + 1].from = o.from + o.len

\* a span of more than 255 bytes, and the last macro before TYPE_END deleted
C17_Witness ==
    /\ Compressed
    /\ Len(Series(hist.pre)) >= 2
    /\ Series(hist.pre)[Len(Series(hist.pre))].type = TYPE_DELETED
    /\ \E j \in 1..Len(hist.ops) :
          /\ IsCopy(j) /\ IsCopy(j + 1)
          /\ hist.ops[j].len = UINT8_MAX
          /\ hist.ops[j + 1].len < UINT8_MAX

-----------------------------------------------------------------------------
(* compress(): the order of the copies and the writes of an iteration *)

\* the first copy of an iteration's data, and the place in hist.ops just
\* after the iteration's copies
FirstChunk(j) == IsCopy(j) /\ ~IsCopy(j - 1)
AfterRun(j) ==
    CHOOSE k \in (j + 1)..(Len(hist.ops) + 1) :
        ~IsCopy(k) /\ \A i \in j..(k - 1) : IsCopy(i)

\* the write of the type of the data whose first copy is hist.ops[j]: the
\* type read from just before the data, written just before its new place
TypeWrite(j) == WriteOp(hist.ops[j].to - 1, Cell(hist.pre, hist.ops[j].from - 1))

\* C18 as stated: in each iteration the type of the data is written to
\* to_overwrite first, and only then is the rest of the data copied (at most
\* 255 bytes a copy).
C18_AsStated ==
    (ret.op = "compress" /\ WellFormed(hist.pre)) =>
        \A j \in 1..Len(hist.ops) :
            FirstChunk(j) =>
               /\ \E i \in 1..(j - 1) : hist.ops[i] = TypeWrite(j)
               /\ \A i \in j..(AfterRun(j) - 1) : hist.ops[i].len <= UINT8_MAX

\* C18 amended: in each iteration the data after the type is copied first
\* (at most 255 bytes a copy) to just after to_overwrite; then, if data is
\* left to look at, TYPE_END is written after the copied data; and only then
\* is the type written to where to_overwrite was, as the last write of the
\* iteration.
C18_TypeWrittenLast ==
    (ret.op = "compress" /\ WellFormed(hist.pre)) =>
        \A j \in 1..Len(hist.ops) :
            FirstChunk(j) =>
               LET k == AfterRun(j)
                   x == hist.ops[k - 1].to + hist.ops[k - 1].len
               IN  /\ \A i \in j..(k - 1) : hist.ops[i].len <= UINT8_MAX
                   /\ k <= Len(hist.ops)
                   /\ TypeWrite(j).val # TYPE_END =>
                         \A i \in 1..(j - 1) : hist.ops[i] # TypeWrite(j)
                   /\ IF k = Len(hist.ops)
                      THEN hist.ops[k] = TypeWrite(j)
                      ELSE /\ hist.ops[k] = WriteOp(x, TYPE_END)
                           /\ hist.ops[k + 1] = TypeWrite(j)

\* data copied in two copies, TYPE_END written after it, then the type, and
\* another iteration after that
C18_Witness ==
    /\ Compressed
    /\ \E j \in 1..Len(hist.ops) :
          /\ FirstChunk(j)
          /\ IsCopy(j + 1)
          /\ AfterRun(j) = j + 2
          /\ hist.ops[j + 2].val = TYPE_END
          /\ hist.ops[j + 3] = WriteOp(hist.ops[j].to - 1, TYPE_VALID_MACRO)
          /\ j + 3 < Len(hist.ops)

-----------------------------------------------------------------------------
(* compress(): nothing to reclaim *)

NoDeleted(m) == \A i \in 1..Len(Series(m)) : Series(m)[i].type # TYPE_DELETED

\* C19: a call of compress() on a series without a deleted macro before
\* TYPE_END schedules no write and no copy and changes no byte, and end_macro
\* and new_end_macro are what they were.
C19_NoOpWhenCompact ==
    [][ (hist'.runs = hist.runs + 1 /\ NoDeleted(mem)) =>
            /\ queue' = <<>>
            /\ hist'.ops = <<>>
            /\ mem' = mem
            /\ end_macro' = end_macro
            /\ new_end_macro' = new_end_macro ]_vars

\* compress() has returned from a series of valid and continued macros
C19_Witness ==
    /\ ret.op = "compress"
    /\ hist.runs = 1
    /\ NoDeleted(hist.pre)
    /\ \E i \in 1..Len(Series(hist.pre)) : Series(hist.pre)[i].type = TYPE_VALID_MACRO
    /\ \E i \in 1..Len(Series(hist.pre)) : Series(hist.pre)[i].type = TYPE_CONTINUED
    /\ hist.ops = <<>>
    /\ queue = <<>>
    /\ mem = hist.pre

-----------------------------------------------------------------------------
(* compress(): continued macros *)

\* macro i of the series is a continued macro with a deleted macro before it
\* and only continued macros in between
Orphan(series, i) ==
    /\ series[i].type = TYPE_CONTINUED
    /\ \E d \in 1..(i - 1) :
          /\ series[d].type = TYPE_DELETED
          /\ \A x \in (d + 1)..i : series[x].type = TYPE_CONTINUED

Kept(series) ==
    { i \in 1..Len(series) : series[i].type # TYPE_DELETED /\ ~Orphan(series, i) }

\* the place macro i has among the macros that are kept
NewPlace(series, i) == Cardinality({ x \in Kept(series) : x <= i })

Continuations(series) == { i \in 1..Len(series) : series[i].type = TYPE_CONTINUED }

\* C20: once compress() has run and its writes are applied, the continued
\* macros that followed a deleted macro (directly, or after other continued
\* macros) are gone with it, and a continued macro that directly followed a
\* valid macro still directly follows that macro, both byte for byte as they
\* were.
C20_ContinuedByAdjacency ==
    (CompressDone /\ WellFormed(hist.pre)) =>
        LET pre  == Series(hist.pre)
            post == Series(mem)
        IN  /\ Len(post) = Cardinality(Kept(pre))
            /\ Cardinality(Continuations(post))
                  = Cardinality(Continuations(pre) \cap Kept(pre))
            /\ \A i \in 1..(Len(pre) - 1) :
                  (pre[i].type = TYPE_VALID_MACRO /\ pre[i + 1].type = TYPE_CONTINUED) =>
                     LET j == NewPlace(pre, i) IN
                     /\ j + 1 <= Len(post)
                     /\ post[j].bytes = pre[i].bytes
                     /\ post[j + 1].bytes = pre[i + 1].bytes
                     /\ post[j + 1].addr = post[j].addr + post[j].len

C20_Witness ==
    /\ CompressDone
    /\ TypesOf(Series(hist.pre)) =
          <<TYPE_DELETED, TYPE_CONTINUED, TYPE_VALID_MACRO, TYPE_CONTINUED>>
    /\ TypesOf(Series(mem)) = <<TYPE_VALID_MACRO, TYPE_CONTINUED>>
    /\ Series(mem)[2].bytes = Series(hist.pre)[4].bytes
    /\ Series(mem)[1].addr = EEMEM_MACROS_START

-----------------------------------------------------------------------------
(* the navigators: what they return *)

\* the addresses of the macros of type `type` at or after `from`
MacrosFrom(m, from, types) ==
    { a \in MacroAddresses(m) : a >= from /\ Cell(m, a) \in types }

Lowest(S) == CHOOSE a \in S : \A b \in S : a <= b

\* C21: on a well-formed series, from the address of any macro of it,
\* find_next_deleted() returns the address of the first deleted macro at or
\* after that address, and 0 exactly when TYPE_END comes before any deleted
\* macro; it schedules no write and changes no byte.
C21_FirstDeleted ==
    (ret.op = "find_next_deleted" /\ WellFormed(mem)) =>
        LET deleted == MacrosFrom(mem, arg.to, {TYPE_DELETED}) IN
        /\ ret.done
        /\ deleted = {} <=> ret.val = 0
        /\ deleted # {} => ret.val = Lowest(deleted)
        /\ queue = <<>>
        /\ mem = hist.pre

\* a deleted macro found behind valid or continued macros, with another
\* deleted macro before the address the scan began at
C21_Witness ==
    /\ ret.op = "find_next_deleted"
    /\ WellFormed(mem)
    /\ ret.val > arg.to
    /\ Len(ret.reads) >= 3
    /\ Cell(mem, ret.val) = TYPE_DELETED
    /\ \E a \in MacroAddresses(mem) : a < arg.to /\ Cell(mem, a) = TYPE_DELETED

\* nothing found, with a deleted macro before the address the scan began at
C21_WitnessNone ==
    /\ ret.op = "find_next_deleted"
    /\ ret.val = 0
    /\ Len(ret.reads) >= 2
    /\ \E a \in MacroAddresses(mem) : a < arg.to /\ Cell(mem, a) = TYPE_DELETED

\* C22: on a well-formed series, from the address of any macro of it,
\* find_next_nondeleted() returns the address of the first macro at or after
\* that address whose type is TYPE_VALID_MACRO or TYPE_END; every macro it
\* passed over is deleted or continued; what it returns is the address of a
\* macro of the series, never 0 and never beyond the TYPE_END macro.
C22_FirstNondeleted ==
    (ret.op = "find_next_nondeleted" /\ WellFormed(mem)) =>
        /\ ret.done
        /\ ret.val = Lowest(MacrosFrom(mem, arg.to, {TYPE_VALID_MACRO, TYPE_END}))
        /\ \A a \in MacroAddresses(mem) :
              (arg.to <= a /\ a < ret.val) => Cell(mem, a) \in {TYPE_DELETED, TYPE_CONTINUED}
        /\ \A j \in 1..(Len(ret.reads) - 1) :
              Cell(mem, ret.reads[j]) \in {TYPE_DELETED, TYPE_CONTINUED}
        /\ ret.val \in MacroAddresses(mem)
        /\ ret.val # 0
        /\ ret.val <= EndAddress(mem)

\* a valid macro found behind a deleted and a continued macro, with a valid
\* macro before the address the scan began at
C22_Witness ==
    /\ ret.op = "find_next_nondeleted"
    /\ WellFormed(mem)
    /\ Len(ret.reads) = 3
    /\ Cell(mem, ret.reads[1]) = TYPE_DELETED
    /\ Cell(mem, ret.reads[2]) = TYPE_CONTINUED
    /\ Cell(mem, ret.val) = TYPE_VALID_MACRO
    /\ \E a \in MacroAddresses(mem) : a < arg.to /\ Cell(mem, a) = TYPE_VALID_MACRO

-----------------------------------------------------------------------------
(* compress(): the order in which its writes and copies take effect *)

Shuffled == hist.phase = "shuffled"

\* every byte is what it is when the writes and copies take effect in the
\* order they were issued
AsInOrder == mem = ApplyAll(hist.pre, hist.ops)

\* C23: the order of issue is needed.  While the writes and copies of a
\* compress() take effect in the order they were issued the bytes from
\* MACROS_START are a series of macros ending with TYPE_END, and at the end
\* they are the series C1 describes; a state in which they are not such a
\* series, or an end with other bytes, comes only after a write or copy took
\* effect before an older one -- and there is such a state (C23_Witness).
C23_OnlyOutOfOrderBreaks ==
    ret.op = "compress" =>
        /\ ~WellFormed(mem) => Shuffled
        /\ (queue = <<>> /\ ~AsInOrder) => Shuffled
        /\ (queue = <<>> /\ ~Shuffled) =>
              BytesOf(Series(mem)) = BytesOf(Surviving(Series(hist.pre), FALSE))

\* after a write or copy took effect before an older one, the bytes from
\* MACROS_START are not a series of macros ending with TYPE_END
C23_Witness ==
    /\ ret.op = "compress"
    /\ Shuffled
    /\ WellFormed(hist.pre)
    /\ ~WellFormed(mem)

\* all writes and copies have taken effect, one of them before an older
\* one, and the series that is left is not the one the order of issue gives
C23_WitnessOtherSeries ==
    /\ ret.op = "compress"
    /\ Shuffled
    /\ queue = <<>>
    /\ WellFormed(mem)
    /\ BytesOf(Series(mem)) # BytesOf(Series(ApplyAll(hist.pre, hist.ops)))

-----------------------------------------------------------------------------
(* marking macros deleted and compress(), again and again *)

\* C24: after every marking of a valid macro as deleted and every
\* compress(), once the writes are applied in order, the bytes from
\* MACROS_START are a series of macros ending with TYPE_END, and its valid
\* macros are those of the first series that were never marked deleted, in
\* the same order and byte for byte as they were; also when compress() runs
\* with the new_end_macro an earlier compress() left.
C24_LiveMacrosKept ==
    queue = <<>> =>
        /\ WellFormed(mem)
        /\ ValidBytes(mem) = hist.live

\* a compress() after an earlier compress() that moved TYPE_END down: the
\* cursors are the old ones, a macro was marked deleted in between, and a
\* valid macro is left
C24_Witness ==
    /\ CompressDone
    /\ HadDeleted
    /\ new_end_macro > EndAddress(hist.pre) + 1
    /\ end_macro > EndAddress(hist.pre)
    /\ \E i \in 1..Len(Series(hist.pre)) :
          /\ Series(hist.pre)[i].type = TYPE_DELETED
          /\ Series(hist.pre)[i].len > 2
    /\ hist.live # <<>>
    /\ ValidBytes(mem) = hist.live
    /\ mem # hist.pre

=============================================================================
